---- MODULE Spec2Model ----
(***************************************************************************)
(* Model of the expense-tracker action handlers (src/src/actions/index.ts) *)
(* over the three tables of src/db/tables.ts.                              *)
(*                                                                         *)
(* Values.  An optional value (a zod .optional() input, or a column        *)
(* declared optional) is a set: {} is undefined / NULL and {v} is the      *)
(* value v.  A required column holds its value directly.  A table is the   *)
(* sequence of its rows in storage (insertion) order.                      *)
(*                                                                         *)
(* Steps.  defineAction validates the input against the zod schema before  *)
(* the handler body runs; the handler then calls requireUser before its    *)
(* first storage statement.  A handler with one statement (create, list)   *)
(* is one step.  A handler with a lookup and a write (update, archive,     *)
(* delete) awaits between the two: the request that finds the slot         *)
(* `pending` free is suspended there and its write is a later step, so     *)
(* that other requests run in between; a request that arrives while the    *)
(* slot is taken runs both statements back to back.                        *)
(*                                                                         *)
(* Time.  new Date() reads `clock`; every write statement takes one        *)
(* instant, and the clock stops the writes at MaxTime.                     *)
(***************************************************************************)
EXTENDS Integers, Sequences, FiniteSets, TLC

VARIABLES accounts, categories, transactions, clock, nextId, pending, resp

vars == <<accounts, categories, transactions, clock, nextId, pending, resp>>

tables == <<accounts, categories, transactions>>

(* ------------------------------ bounds --------------------------------- *)

\* rows ever inserted, over the three tables together
MaxIds == 2
\* instants of the clock, one per write statement
MaxTime == 3

(* ------------------------------ values --------------------------------- *)

Users == {"u1", "u2"}
\* a context whose locals carry no user
NoUser == "anonymous"
Callers == Users \cup {NoUser}

\* crypto.randomUUID(): the n-th fresh identifier
IdNames == <<"id1", "id2", "id3", "id4", "id5", "id6">>
RandomUUID(n) == IdNames[n]
Ids == {IdNames[i] : i \in 1..MaxIds}

Absent == {}
Some(v) == {v}
Val(m) == CHOOSE v \in m : TRUE

Null == [null |-> TRUE]
NoData == [none |-> TRUE]
Idle == [op |-> "idle"]
NoResp == [op |-> "none", code |-> "none", data |-> NoData,
           req |-> NoData, before |-> NoData]

Min(a, b) == IF a < b THEN a ELSE b

\* y ?? x, the operands exchanged: a column that is set keeps its value
CoalesceSwapped(inp, prior) == IF prior = Absent THEN inp ELSE prior

\* the x ?? y of the update handlers, for a column declared optional
Coalesce(inp, prior) == IF inp = Absent THEN prior ELSE inp

\* the x ?? y of the update handlers, for a required column
CoalesceReq(inp, prior) == IF inp = Absent THEN prior ELSE Val(inp)

\* JavaScript truthiness of an optional string: if (input.accountId)
Truthy(m) == m # Absent /\ m # Some("")

(* ------------------------------- guard --------------------------------- *)

AlwaysSignedIn(caller) == TRUE

\* requireUser: throws UNAUTHORIZED when the context carries no user
RequireUser(caller) == caller # NoUser

\* a thrown ActionError: no data
Error(op, code) ==
    [op |-> op, code |-> code, data |-> NoData, req |-> NoData, before |-> NoData]

\* { success: true, data }
Success(op, data) ==
    [op |-> op, code |-> "OK", data |-> data, req |-> NoData, before |-> NoData]

\* the success of a write, with the request it answers and the row its statement
\* found in the table (Null when the statement matched no row)
Written(op, data, req, before) ==
    [op |-> op, code |-> "OK", data |-> data, req |-> req, before |-> before]

FirstOrNull(rows) == IF rows = <<>> THEN Null ELSE rows[1]

RowsWithId(table, id) ==
    LET Match(r) == r.id = id IN SelectSeq(table, Match)

RowsOfUser(table, userId) ==
    LET Match(r) == r.userId = userId IN SelectSeq(table, Match)

RowIds(table) == {table[i].id : i \in 1..Len(table)}

(* ------------------------------ accounts ------------------------------- *)

GetAccountById(id, userId) == FirstOrNull(RowsWithId(accounts, id))

GetAccountForUser(id, userId) ==
    LET Match(r) == r.id = id /\ r.userId = userId
    IN FirstOrNull(SelectSeq(accounts, Match))

CreateAccountInputs ==
    { [name |-> "", type |-> Absent, currency |-> Absent, startingBalance |-> Absent],
      [name |-> "Cash", type |-> Some("cash"), currency |-> Some("AED"),
       startingBalance |-> Some(5)] }

\* name: z.string().min(1)
ValidCreateAccount(input) == input.name # ""

CreateAccountCheck(caller, input) ==
    IF ~ValidCreateAccount(input) THEN "BAD_REQUEST"
    ELSE IF ~RequireUser(caller) THEN "UNAUTHORIZED"
    ELSE "OK"

NewAccount(caller, input, id, now) ==
    [id |-> id, userId |-> caller, name |-> input.name, type |-> input.type,
     currency |-> input.currency, startingBalance |-> input.startingBalance,
     isArchived |-> FALSE, createdAt |-> now, updatedAt |-> now]

CreateAccount(caller, input) ==
    /\ resp = NoResp
    /\ LET code == CreateAccountCheck(caller, input)
           account == NewAccount(caller, input, RandomUUID(nextId), clock)
       IN IF code # "OK"
          THEN /\ resp' = Error("createAccount", code)
               /\ UNCHANGED <<tables, clock, nextId>>
          ELSE /\ nextId <= MaxIds
               /\ clock < MaxTime
               /\ accounts' = Append(accounts, account)
               /\ nextId' = nextId + 1
               /\ clock' = clock + 1
               /\ resp' = Success("createAccount", account)
               /\ UNCHANGED <<categories, transactions>>
    /\ UNCHANGED pending

NoAccountPatch ==
    [name |-> Absent, type |-> Absent, currency |-> Absent,
     startingBalance |-> Absent, isArchived |-> Absent]

AccountPatches ==
    { NoAccountPatch,
      [NoAccountPatch EXCEPT !.name = Some("")],
      [NoAccountPatch EXCEPT !.name = Some("Bank"), !.type = Some(""),
                             !.startingBalance = Some(0)],
      [NoAccountPatch EXCEPT !.isArchived = Some(FALSE)] }

\* name: z.string().min(1).optional()
ValidUpdateAccount(input) == input.name # Some("")

UpdateAccountCheck(caller, id, input) ==
    IF ~ValidUpdateAccount(input) THEN "BAD_REQUEST"
    ELSE IF ~RequireUser(caller) THEN "UNAUTHORIZED"
    ELSE IF GetAccountForUser(id, caller) = Null THEN "NOT_FOUND"
    ELSE "OK"

\* the columns of the update's set(...), computed from the looked-up row
AccountSet(input, account, now) ==
    [name |-> CoalesceReq(input.name, account.name),
     type |-> Coalesce(input.type, account.type),
     currency |-> Coalesce(input.currency, account.currency),
     startingBalance |-> Coalesce(input.startingBalance, account.startingBalance),
     isArchived |-> CoalesceReq(input.isArchived, account.isArchived),
     updatedAt |-> now]

\* { ...account, ...input, updatedAt: now }: the view the update returns
AccountView(input, account, now) ==
    [id |-> account.id, userId |-> account.userId, createdAt |-> account.createdAt]
        @@ AccountSet(input, account, now)

\* the row a stored row becomes under update(Accounts).set(...)
AccountUpdated(row, set) ==
    [id |-> row.id, userId |-> row.userId, createdAt |-> row.createdAt] @@ set

UpdateAccountsInPlace(table, req, now) ==
    [i \in 1..Len(table) |->
        IF table[i].id = req.id /\ table[i].userId = req.user
        THEN AccountUpdated(table[i], AccountSet(req.input, table[i], now))
        ELSE table[i]]

\* update(Accounts).set(...).where(id = input.id AND userId = user.id), the set
\* computed from the input and the row the handler looked up
UpdateAccounts(table, req, now) ==
    [i \in 1..Len(table) |->
        IF table[i].id = req.id /\ table[i].userId = req.user
        THEN AccountUpdated(table[i], AccountSet(req.input, req.row, now))
        ELSE table[i]]

\* the statement and the response of updateAccount's second half
UpdateAccountFinish(req) ==
    /\ clock < MaxTime
    /\ accounts' = UpdateAccounts(accounts, req, clock)
    /\ clock' = clock + 1
    /\ resp' = Written("updateAccount", AccountView(req.input, req.row, clock),
                       req, GetAccountForUser(req.id, req.user))
    /\ UNCHANGED <<categories, transactions, nextId>>

UpdateAccount(caller, id, input) ==
    /\ resp = NoResp
    /\ LET code == UpdateAccountCheck(caller, id, input)
           req == [op |-> "updateAccount", user |-> caller, id |-> id,
                   input |-> input, row |-> GetAccountForUser(id, caller)]
       IN IF code # "OK"
          THEN /\ resp' = Error("updateAccount", code)
               /\ UNCHANGED <<tables, clock, nextId, pending>>
          ELSE IF pending = Idle
          THEN /\ pending' = req
               /\ UNCHANGED <<tables, clock, nextId, resp>>
          ELSE /\ UpdateAccountFinish(req)
               /\ UNCHANGED pending

UpdateAccountWrite ==
    /\ resp = NoResp
    /\ pending.op = "updateAccount"
    /\ UpdateAccountFinish(pending)
    /\ pending' = Idle

ArchiveAccountCheck(caller, id) ==
    IF ~RequireUser(caller) THEN "UNAUTHORIZED"
    ELSE IF GetAccountForUser(id, caller) = Null THEN "NOT_FOUND"
    ELSE "OK"

ArchiveToggle(account, now) ==
    [name |-> account.name, type |-> account.type, currency |-> account.currency,
     startingBalance |-> account.startingBalance,
     isArchived |-> ~account.isArchived, updatedAt |-> now]

\* archive's set({ isArchived: true, updatedAt: now }), as the columns of a row
ArchiveSet(row, now) ==
    [name |-> row.name, type |-> row.type, currency |-> row.currency,
     startingBalance |-> row.startingBalance,
     isArchived |-> TRUE, updatedAt |-> now]

\* update(Accounts).set({isArchived: true, updatedAt}).where(id AND userId)
ArchiveAccounts(table, id, userId, now) ==
    [i \in 1..Len(table) |->
        IF table[i].id = id /\ table[i].userId = userId
        THEN AccountUpdated(table[i], ArchiveSet(table[i], now)) ELSE table[i]]

ArchiveAccountFinish(req) ==
    /\ clock < MaxTime
    /\ accounts' = ArchiveAccounts(accounts, req.id, req.user, clock)
    /\ clock' = clock + 1
    /\ resp' = Written("archiveAccount",
                       AccountUpdated(req.row, ArchiveSet(req.row, clock)),
                       req, GetAccountForUser(req.id, req.user))
    /\ UNCHANGED <<categories, transactions, nextId>>

ArchiveAccount(caller, id) ==
    /\ resp = NoResp
    /\ LET code == ArchiveAccountCheck(caller, id)
           req == [op |-> "archiveAccount", user |-> caller, id |-> id,
                   input |-> NoAccountPatch, row |-> GetAccountForUser(id, caller)]
       IN IF code # "OK"
          THEN /\ resp' = Error("archiveAccount", code)
               /\ UNCHANGED <<tables, clock, nextId, pending>>
          ELSE IF pending = Idle
          THEN /\ pending' = req
               /\ UNCHANGED <<tables, clock, nextId, resp>>
          ELSE /\ ArchiveAccountFinish(req)
               /\ UNCHANGED pending

ArchiveAccountWrite ==
    /\ resp = NoResp
    /\ pending.op = "archiveAccount"
    /\ ArchiveAccountFinish(pending)
    /\ pending' = Idle

ListFlags == {TRUE, FALSE}

ListAccountsCheck(caller) ==
    IF ~RequireUser(caller) THEN "UNAUTHORIZED" ELSE "OK"

ListAllAccounts(caller, includeArchived) == RowsOfUser(accounts, caller)

\* select().from(Accounts).where(includeArchived ? userId : userId AND !isArchived)
ListAccountsItems(caller, includeArchived) ==
    LET Match(r) == IF includeArchived
                    THEN r.userId = caller
                    ELSE r.userId = caller /\ r.isArchived = FALSE
    IN SelectSeq(accounts, Match)

ListResult(items) == [items |-> items, total |-> Len(items)]

ListAccounts(caller, includeArchived) ==
    /\ resp = NoResp
    /\ LET code == ListAccountsCheck(caller)
       IN resp' = IF code # "OK" THEN Error("listAccounts", code)
                  ELSE Success("listAccounts",
                               ListResult(ListAccountsItems(caller, includeArchived)))
    /\ UNCHANGED <<tables, clock, nextId, pending>>

(* ----------------------------- categories ------------------------------ *)

GetCategoryForUser(id, userId) ==
    LET Match(r) == r.id = id /\ r.userId = userId
    IN FirstOrNull(SelectSeq(categories, Match))

CreateCategoryInputs ==
    { [name |-> "", type |-> Absent, icon |-> Absent,
       parentCategoryId |-> Absent, sortOrder |-> Absent],
      [name |-> "Rent", type |-> Some("expense"), icon |-> Some("home"),
       parentCategoryId |-> Absent, sortOrder |-> Some(1)] }

\* name: z.string().min(1)
ValidCreateCategory(input) == input.name # ""

CreateCategoryCheck(caller, input) ==
    IF ~ValidCreateCategory(input) THEN "BAD_REQUEST"
    ELSE IF ~RequireUser(caller) THEN "UNAUTHORIZED"
    ELSE "OK"

NewCategory(caller, input, id, now) ==
    [id |-> id, userId |-> caller, name |-> input.name, type |-> input.type,
     icon |-> input.icon, parentCategoryId |-> input.parentCategoryId,
     sortOrder |-> input.sortOrder,
     isArchived |-> FALSE, createdAt |-> now, updatedAt |-> now]

CreateCategory(caller, input) ==
    /\ resp = NoResp
    /\ LET code == CreateCategoryCheck(caller, input)
           category == NewCategory(caller, input, RandomUUID(nextId), clock)
       IN IF code # "OK"
          THEN /\ resp' = Error("createCategory", code)
               /\ UNCHANGED <<tables, clock, nextId>>
          ELSE /\ nextId <= MaxIds
               /\ clock < MaxTime
               /\ categories' = Append(categories, category)
               /\ nextId' = nextId + 1
               /\ clock' = clock + 1
               /\ resp' = Success("createCategory", category)
               /\ UNCHANGED <<accounts, transactions>>
    /\ UNCHANGED pending

NoCategoryPatch ==
    [name |-> Absent, type |-> Absent, icon |-> Absent, parentCategoryId |-> Absent,
     sortOrder |-> Absent, isArchived |-> Absent]

CategoryPatches ==
    { NoCategoryPatch,
      [NoCategoryPatch EXCEPT !.name = Some("")],
      [NoCategoryPatch EXCEPT !.name = Some("Salary"), !.type = Some("income"),
                              !.icon = Some(""), !.sortOrder = Some(0)],
      [NoCategoryPatch EXCEPT !.isArchived = Some(FALSE)] }

\* name: z.string().min(1).optional()
ValidUpdateCategory(input) == input.name # Some("")

UpdateCategoryCheck(caller, id, input) ==
    IF ~ValidUpdateCategory(input) THEN "BAD_REQUEST"
    ELSE IF ~RequireUser(caller) THEN "UNAUTHORIZED"
    ELSE IF GetCategoryForUser(id, caller) = Null THEN "NOT_FOUND"
    ELSE "OK"

\* the columns of the update's set(...), computed from the looked-up row
CategorySet(input, category, now) ==
    [name |-> CoalesceReq(input.name, category.name),
     type |-> Coalesce(input.type, category.type),
     icon |-> Coalesce(input.icon, category.icon),
     parentCategoryId |-> Coalesce(input.parentCategoryId, category.parentCategoryId),
     sortOrder |-> Coalesce(input.sortOrder, category.sortOrder),
     isArchived |-> CoalesceReq(input.isArchived, category.isArchived),
     updatedAt |-> now]

\* { ...category, ...input, updatedAt: now }: the view the update returns
CategoryView(input, category, now) ==
    [id |-> category.id, userId |-> category.userId, createdAt |-> category.createdAt]
        @@ CategorySet(input, category, now)

\* the row a stored row becomes under update(Categories).set(...)
CategoryUpdated(row, set) ==
    [id |-> row.id, userId |-> row.userId, createdAt |-> row.createdAt] @@ set

\* update(Categories).set(...).where(id = input.id AND userId = user.id), the set
\* computed from the input and the row the handler looked up
UpdateCategories(table, req, now) ==
    [i \in 1..Len(table) |->
        IF table[i].id = req.id /\ table[i].userId = req.user
        THEN CategoryUpdated(table[i], CategorySet(req.input, req.row, now))
        ELSE table[i]]

\* the statement and the response of updateCategory's second half
UpdateCategoryFinish(req) ==
    /\ clock < MaxTime
    /\ categories' = UpdateCategories(categories, req, clock)
    /\ clock' = clock + 1
    /\ resp' = Written("updateCategory", CategoryView(req.input, req.row, clock),
                       req, GetCategoryForUser(req.id, req.user))
    /\ UNCHANGED <<accounts, transactions, nextId>>

UpdateCategory(caller, id, input) ==
    /\ resp = NoResp
    /\ LET code == UpdateCategoryCheck(caller, id, input)
           req == [op |-> "updateCategory", user |-> caller, id |-> id,
                   input |-> input, row |-> GetCategoryForUser(id, caller)]
       IN IF code # "OK"
          THEN /\ resp' = Error("updateCategory", code)
               /\ UNCHANGED <<tables, clock, nextId, pending>>
          ELSE IF pending = Idle
          THEN /\ pending' = req
               /\ UNCHANGED <<tables, clock, nextId, resp>>
          ELSE /\ UpdateCategoryFinish(req)
               /\ UNCHANGED pending

UpdateCategoryWrite ==
    /\ resp = NoResp
    /\ pending.op = "updateCategory"
    /\ UpdateCategoryFinish(pending)
    /\ pending' = Idle

ArchiveCategoryCheck(caller, id) ==
    IF ~RequireUser(caller) THEN "UNAUTHORIZED"
    ELSE IF GetCategoryForUser(id, caller) = Null THEN "NOT_FOUND"
    ELSE "OK"

\* archive's set({ isArchived: true, updatedAt: now }), as the columns of a row
ArchiveCategorySet(row, now) ==
    [name |-> row.name, type |-> row.type, icon |-> row.icon,
     parentCategoryId |-> row.parentCategoryId, sortOrder |-> row.sortOrder,
     isArchived |-> TRUE, updatedAt |-> now]

\* update(Categories).set({isArchived: true, updatedAt}).where(id AND userId)
ArchiveCategories(table, id, userId, now) ==
    [i \in 1..Len(table) |->
        IF table[i].id = id /\ table[i].userId = userId
        THEN CategoryUpdated(table[i], ArchiveCategorySet(table[i], now))
        ELSE table[i]]

ArchiveCategoryFinish(req) ==
    /\ clock < MaxTime
    /\ categories' = ArchiveCategories(categories, req.id, req.user, clock)
    /\ clock' = clock + 1
    /\ resp' = Written("archiveCategory",
                       CategoryUpdated(req.row, ArchiveCategorySet(req.row, clock)),
                       req, GetCategoryForUser(req.id, req.user))
    /\ UNCHANGED <<accounts, transactions, nextId>>

ArchiveCategory(caller, id) ==
    /\ resp = NoResp
    /\ LET code == ArchiveCategoryCheck(caller, id)
           req == [op |-> "archiveCategory", user |-> caller, id |-> id,
                   input |-> NoCategoryPatch, row |-> GetCategoryForUser(id, caller)]
       IN IF code # "OK"
          THEN /\ resp' = Error("archiveCategory", code)
               /\ UNCHANGED <<tables, clock, nextId, pending>>
          ELSE IF pending = Idle
          THEN /\ pending' = req
               /\ UNCHANGED <<tables, clock, nextId, resp>>
          ELSE /\ ArchiveCategoryFinish(req)
               /\ UNCHANGED pending

ArchiveCategoryWrite ==
    /\ resp = NoResp
    /\ pending.op = "archiveCategory"
    /\ ArchiveCategoryFinish(pending)
    /\ pending' = Idle

ListCategoriesCheck(caller) ==
    IF ~RequireUser(caller) THEN "UNAUTHORIZED" ELSE "OK"

\* select().from(Categories).where(includeArchived ? userId : userId AND !isArchived)
ListCategoriesItems(caller, includeArchived) ==
    LET Match(r) == IF includeArchived
                    THEN r.userId = caller
                    ELSE r.userId = caller /\ r.isArchived = FALSE
    IN SelectSeq(categories, Match)

ListCategories(caller, includeArchived) ==
    /\ resp = NoResp
    /\ LET code == ListCategoriesCheck(caller)
       IN resp' = IF code # "OK" THEN Error("listCategories", code)
                  ELSE Success("listCategories",
                               ListResult(ListCategoriesItems(caller, includeArchived)))
    /\ UNCHANGED <<tables, clock, nextId, pending>>

(* ---------------------------- transactions ----------------------------- *)

GetTransactionForUser(id, userId) ==
    LET Match(r) == r.id = id /\ r.userId = userId
    IN FirstOrNull(SelectSeq(transactions, Match))

NoTransactionPatch ==
    [accountId |-> Absent, categoryId |-> Absent, type |-> Absent, amount |-> Absent,
     currency |-> Absent, transactionDate |-> Absent, description |-> Absent,
     transferAccountId |-> Absent]

\* accountId and categoryId are declared references: inputs name existing rows
CreateTransactionInputs ==
    { [NoTransactionPatch EXCEPT !.type = "expense", !.amount = 0],
      [NoTransactionPatch EXCEPT !.type = "expense", !.amount = -1],
      [NoTransactionPatch EXCEPT !.type = "income", !.amount = 7,
                                 !.currency = Some("USD"),
                                 !.transactionDate = Some(0),
                                 !.description = Some("pay")] }
    \cup { [NoTransactionPatch EXCEPT !.type = "expense", !.amount = 5,
                                      !.accountId = Some(a)] : a \in RowIds(accounts) }
    \cup { [NoTransactionPatch EXCEPT !.type = "expense", !.amount = 5,
                                      !.categoryId = Some(c)] : c \in RowIds(categories) }

\* amount: z.number().nonnegative()
NonNegativeAmount(input) == input.amount >= 0

\* amount: z.number().positive()
ValidCreateTransaction(input) == input.amount > 0

CreateTransactionCheck(caller, input) ==
    IF ~ValidCreateTransaction(input) THEN "BAD_REQUEST"
    ELSE IF ~RequireUser(caller) THEN "UNAUTHORIZED"
    ELSE "OK"

NewTransaction(caller, input, id, now) ==
    [id |-> id, userId |-> caller, accountId |-> input.accountId,
     categoryId |-> input.categoryId, type |-> input.type, amount |-> input.amount,
     currency |-> input.currency,
     transactionDate |-> CoalesceReq(input.transactionDate, now),
     description |-> input.description,
     transferAccountId |-> input.transferAccountId,
     createdAt |-> now, updatedAt |-> now]

CreateTransaction(caller, input) ==
    /\ resp = NoResp
    /\ LET code == CreateTransactionCheck(caller, input)
           transaction == NewTransaction(caller, input, RandomUUID(nextId), clock)
       IN IF code # "OK"
          THEN /\ resp' = Error("createTransaction", code)
               /\ UNCHANGED <<tables, clock, nextId>>
          ELSE /\ nextId <= MaxIds
               /\ clock < MaxTime
               /\ transactions' = Append(transactions, transaction)
               /\ nextId' = nextId + 1
               /\ clock' = clock + 1
               /\ resp' = Success("createTransaction", transaction)
               /\ UNCHANGED <<accounts, categories>>
    /\ UNCHANGED pending

TransactionPatches ==
    { NoTransactionPatch,
      [NoTransactionPatch EXCEPT !.amount = Some(0)],
      [NoTransactionPatch EXCEPT !.amount = Some(-1)],
      [NoTransactionPatch EXCEPT !.amount = Some(9)],
      [NoTransactionPatch EXCEPT !.type = Some("transfer"), !.currency = Some(""),
                                 !.transactionDate = Some(1),
                                 !.description = Some(""),
                                 !.transferAccountId = Some("other")] }
    \cup { [NoTransactionPatch EXCEPT !.accountId = Some(a)] : a \in RowIds(accounts) }
    \cup { [NoTransactionPatch EXCEPT !.categoryId = Some(c)] : c \in RowIds(categories) }

\* amount: z.number().positive().optional()
ValidUpdateTransaction(input) == input.amount = Absent \/ Val(input.amount) > 0

UpdateTransactionCheck(caller, id, input) ==
    IF ~ValidUpdateTransaction(input) THEN "BAD_REQUEST"
    ELSE IF ~RequireUser(caller) THEN "UNAUTHORIZED"
    ELSE IF GetTransactionForUser(id, caller) = Null THEN "NOT_FOUND"
    ELSE "OK"

\* the columns of the update's set(...), computed from the looked-up row
TransactionSet(input, transaction, now) ==
    [accountId |-> Coalesce(input.accountId, transaction.accountId),
     categoryId |-> Coalesce(input.categoryId, transaction.categoryId),
     type |-> CoalesceReq(input.type, transaction.type),
     amount |-> CoalesceReq(input.amount, transaction.amount),
     currency |-> Coalesce(input.currency, transaction.currency),
     transactionDate |-> CoalesceReq(input.transactionDate, transaction.transactionDate),
     description |-> Coalesce(input.description, transaction.description),
     transferAccountId |-> Coalesce(input.transferAccountId,
                                    transaction.transferAccountId),
     updatedAt |-> now]

\* { ...transaction, ...input, updatedAt: now }: the view the update returns
TransactionView(input, transaction, now) ==
    [id |-> transaction.id, userId |-> transaction.userId,
     createdAt |-> transaction.createdAt] @@ TransactionSet(input, transaction, now)

\* the row a stored row becomes under update(Transactions).set(...)
TransactionUpdated(row, set) ==
    [id |-> row.id, userId |-> row.userId, createdAt |-> row.createdAt] @@ set

UpsertTransactions(table, req, now) ==
    IF \E i \in 1..Len(table) : table[i].id = req.id /\ table[i].userId = req.user
    THEN [i \in 1..Len(table) |->
            IF table[i].id = req.id /\ table[i].userId = req.user
            THEN TransactionUpdated(table[i], TransactionSet(req.input, req.row, now))
            ELSE table[i]]
    ELSE Append(table, TransactionView(req.input, req.row, now))

\* update(Transactions).set(...).where(id = input.id AND userId = user.id), the set
\* computed from the input and the row the handler looked up
UpdateTransactions(table, req, now) ==
    [i \in 1..Len(table) |->
        IF table[i].id = req.id /\ table[i].userId = req.user
        THEN TransactionUpdated(table[i], TransactionSet(req.input, req.row, now))
        ELSE table[i]]

\* the statement and the response of updateTransaction's second half
UpdateTransactionFinish(req) ==
    /\ clock < MaxTime
    /\ transactions' = UpdateTransactions(transactions, req, clock)
    /\ clock' = clock + 1
    /\ resp' = Written("updateTransaction", TransactionView(req.input, req.row, clock),
                       req, GetTransactionForUser(req.id, req.user))
    /\ UNCHANGED <<accounts, categories, nextId>>

UpdateTransaction(caller, id, input) ==
    /\ resp = NoResp
    /\ LET code == UpdateTransactionCheck(caller, id, input)
           req == [op |-> "updateTransaction", user |-> caller, id |-> id,
                   input |-> input, row |-> GetTransactionForUser(id, caller)]
       IN IF code # "OK"
          THEN /\ resp' = Error("updateTransaction", code)
               /\ UNCHANGED <<tables, clock, nextId, pending>>
          ELSE IF pending = Idle
          THEN /\ pending' = req
               /\ UNCHANGED <<tables, clock, nextId, resp>>
          ELSE /\ UpdateTransactionFinish(req)
               /\ UNCHANGED pending

UpdateTransactionWrite ==
    /\ resp = NoResp
    /\ pending.op = "updateTransaction"
    /\ UpdateTransactionFinish(pending)
    /\ pending' = Idle

DeleteTransactionCheck(caller, id) ==
    IF ~RequireUser(caller) THEN "UNAUTHORIZED"
    ELSE IF GetTransactionForUser(id, caller) = Null THEN "NOT_FOUND"
    ELSE "OK"

DeleteOfUser(table, id, userId) ==
    LET Keep(r) == r.userId # userId IN SelectSeq(table, Keep)

\* delete(Transactions).where(id = id AND userId = userId)
DeleteTransactions(table, id, userId) ==
    LET Keep(r) == ~(r.id = id /\ r.userId = userId) IN SelectSeq(table, Keep)

\* deleteTransaction's second half: the statement, then { success: true }
DeleteTransactionFinish(req) ==
    /\ clock < MaxTime
    /\ transactions' = DeleteTransactions(transactions, req.id, req.user)
    /\ clock' = clock + 1
    /\ resp' = Written("deleteTransaction", NoData,
                       req, GetTransactionForUser(req.id, req.user))
    /\ UNCHANGED <<accounts, categories, nextId>>

DeleteTransaction(caller, id) ==
    /\ resp = NoResp
    /\ LET code == DeleteTransactionCheck(caller, id)
           req == [op |-> "deleteTransaction", user |-> caller, id |-> id,
                   input |-> NoTransactionPatch,
                   row |-> GetTransactionForUser(id, caller)]
       IN IF code # "OK"
          THEN /\ resp' = Error("deleteTransaction", code)
               /\ UNCHANGED <<tables, clock, nextId, pending>>
          ELSE IF pending = Idle
          THEN /\ pending' = req
               /\ UNCHANGED <<tables, clock, nextId, resp>>
          ELSE /\ DeleteTransactionFinish(req)
               /\ UNCHANGED pending

DeleteTransactionWrite ==
    /\ resp = NoResp
    /\ pending.op = "deleteTransaction"
    /\ DeleteTransactionFinish(pending)
    /\ pending' = Idle

\* no filter, and the defaults page = 1 and pageSize = 20 scaled down to 1
NoFilter ==
    [accountId |-> Absent, categoryId |-> Absent, type |-> Absent,
     page |-> 1, pageSize |-> 1]

ListTransactionsInputs ==
    { [NoFilter EXCEPT !.page = 0],
      [NoFilter EXCEPT !.pageSize = 0],
      NoFilter,
      [NoFilter EXCEPT !.page = 2],
      [NoFilter EXCEPT !.page = 3],
      [NoFilter EXCEPT !.pageSize = 2],
      [NoFilter EXCEPT !.accountId = Some("")],
      [NoFilter EXCEPT !.accountId = Some("id1"), !.pageSize = 2],
      [NoFilter EXCEPT !.categoryId = Some("id1"), !.pageSize = 2],
      [NoFilter EXCEPT !.type = Some("income"), !.pageSize = 2],
      [NoFilter EXCEPT !.accountId = Some("id1"), !.type = Some("expense")] }

\* page and pageSize: z.number().int().positive()
ValidListTransactions(input) == input.page > 0 /\ input.pageSize > 0

ListTransactionsCheck(caller, input) ==
    IF ~ValidListTransactions(input) THEN "BAD_REQUEST"
    ELSE IF ~RequireUser(caller) THEN "UNAUTHORIZED"
    ELSE "OK"

\* the conjunction of the filters pushed by the handler
TransactionMatches(r, caller, input) ==
    /\ r.userId = caller
    /\ Truthy(input.accountId) => r.accountId = input.accountId
    /\ Truthy(input.categoryId) => r.categoryId = input.categoryId
    /\ Truthy(input.type) => r.type = Val(input.type)

\* an offset of page * pageSize
LimitOffsetNextPage(rows, limit, offset) ==
    SubSeq(rows, offset + limit + 1, Min(Len(rows), offset + 2 * limit))

\* .limit(pageSize).offset(offset) over the rows in storage order
LimitOffset(rows, limit, offset) ==
    SubSeq(rows, offset + 1, Min(Len(rows), offset + limit))

ListTransactionsItems(caller, input) ==
    LET offset == (input.page - 1) * input.pageSize
        Match(r) == TransactionMatches(r, caller, input)
    IN LimitOffset(SelectSeq(transactions, Match), input.pageSize, offset)

ListTransactionsResult(caller, input) ==
    LET items == ListTransactionsItems(caller, input)
    IN [items |-> items, total |-> Len(items),
        page |-> input.page, pageSize |-> input.pageSize]

ListTransactions(caller, input) ==
    /\ resp = NoResp
    /\ LET code == ListTransactionsCheck(caller, input)
       IN resp' = IF code # "OK" THEN Error("listTransactions", code)
                  ELSE Success("listTransactions",
                               ListTransactionsResult(caller, input))
    /\ UNCHANGED <<tables, clock, nextId, pending>>

(* ------------------------------ transport ------------------------------ *)

\* the response of the step just taken is handed to the caller
Deliver ==
    /\ resp # NoResp
    /\ resp' = NoResp
    /\ UNCHANGED <<tables, clock, nextId, pending>>

Init ==
    /\ accounts = <<>>
    /\ categories = <<>>
    /\ transactions = <<>>
    /\ clock = 0
    /\ nextId = 1
    /\ pending = Idle
    /\ resp = NoResp

Next ==
    \/ Deliver
    \/ \E c \in Callers, i \in CreateAccountInputs : CreateAccount(c, i)
    \/ \E c \in Callers, id \in Ids, i \in AccountPatches : UpdateAccount(c, id, i)
    \/ UpdateAccountWrite
    \/ \E c \in Callers, id \in Ids : ArchiveAccount(c, id)
    \/ ArchiveAccountWrite
    \/ \E c \in Callers, f \in ListFlags : ListAccounts(c, f)
    \/ \E c \in Callers, i \in CreateCategoryInputs : CreateCategory(c, i)
    \/ \E c \in Callers, id \in Ids, i \in CategoryPatches : UpdateCategory(c, id, i)
    \/ UpdateCategoryWrite
    \/ \E c \in Callers, id \in Ids : ArchiveCategory(c, id)
    \/ ArchiveCategoryWrite
    \/ \E c \in Callers, f \in ListFlags : ListCategories(c, f)
    \/ \E c \in Callers, i \in CreateTransactionInputs : CreateTransaction(c, i)
    \/ \E c \in Callers, id \in Ids, i \in TransactionPatches :
          UpdateTransaction(c, id, i)
    \/ UpdateTransactionWrite
    \/ \E c \in Callers, id \in Ids : DeleteTransaction(c, id)
    \/ DeleteTransactionWrite
    \/ \E c \in Callers, i \in ListTransactionsInputs : ListTransactions(c, i)

Spec == Init /\ [][Next]_vars

(* ======================= properties of the handlers ======================= *)

\* the row with this id, or Null
Row(table, id) == FirstOrNull(RowsWithId(table, id))

OwnedByOther(table, id, caller) ==
    \E k \in 1..Len(table) : table[k].id = id /\ table[k].userId # caller

AllOwnedBy(rows, caller) == \A k \in 1..Len(rows) : rows[k].userId = caller

RowSet(rows) == {rows[k] : k \in 1..Len(rows)}

\* a supplied value is stored, an absent one leaves the prior value
KeptOrSet(inp, old, new) ==
    /\ inp = Absent => new = old
    /\ inp # Absent => new = inp

KeptOrSetReq(inp, old, new) ==
    /\ inp = Absent => new = old
    /\ inp # Absent => new = Val(inp)

SameOrder(old, new) ==
    /\ Len(new) = Len(old)
    /\ \A k \in 1..Len(old) : new[k].id = old[k].id

OthersUnchanged(old, new, id) ==
    \A k \in 1..Len(old) : old[k].id # id => new[k] = old[k]

(* ---- C1 ---------------------------------------------------------------- *)

C1_Checks ==
    \A B \in Users, id \in Ids :
        /\ OwnedByOther(accounts, id, B) =>
              /\ ArchiveAccountCheck(B, id) = "NOT_FOUND"
              /\ \A i \in AccountPatches :
                    ValidUpdateAccount(i) => UpdateAccountCheck(B, id, i) = "NOT_FOUND"
        /\ OwnedByOther(categories, id, B) =>
              /\ ArchiveCategoryCheck(B, id) = "NOT_FOUND"
              /\ \A i \in CategoryPatches :
                    ValidUpdateCategory(i) => UpdateCategoryCheck(B, id, i) = "NOT_FOUND"
        /\ OwnedByOther(transactions, id, B) =>
              /\ DeleteTransactionCheck(B, id) = "NOT_FOUND"
              /\ \A i \in TransactionPatches :
                    ValidUpdateTransaction(i) =>
                        UpdateTransactionCheck(B, id, i) = "NOT_FOUND"

C1_Lists ==
    \A B \in Users :
        /\ \A f \in ListFlags :
              /\ AllOwnedBy(ListAccountsItems(B, f), B)
              /\ AllOwnedBy(ListCategoriesItems(B, f), B)
        /\ \A i \in ListTransactionsInputs :
              ValidListTransactions(i) => AllOwnedBy(ListTransactionsItems(B, i), B)

C1_Held == pending # Idle => pending.row # Null /\ pending.row.userId = pending.user

C1_Touched(old, new) ==
    \A id \in Ids :
        (Row(old, id) # Null /\ Row(new, id) # Row(old, id)) =>
            /\ resp'.req # NoData
            /\ resp'.req.user = Row(old, id).userId

C1_Step ==
    /\ resp'.code = "NOT_FOUND" =>
          /\ UNCHANGED <<tables, pending>>
          /\ resp'.data = NoData
    /\ C1_Touched(accounts, accounts')
    /\ C1_Touched(categories, categories')
    /\ C1_Touched(transactions, transactions')

\* C1: owner isolation.  In every reachable state, for every row with owner A and
\* every signed-in caller B other than A, archive/delete with the row's id, and
\* update with the row's id and any input the schema accepts, end in NOT_FOUND;
\* a NOT_FOUND step returns no data and changes no table; a row is changed or
\* removed only by a write of a request of its own owner; a suspended request
\* holds only a row of its own caller; and every list by B returns rows of B only.
C1_OwnerIsolation == [](C1_Checks /\ C1_Lists /\ C1_Held) /\ [][C1_Step]_vars

\* every id names an account, and an archive of one of them ended in NOT_FOUND
C1_Witness ==
    /\ Len(accounts) = Cardinality(Ids)
    /\ resp.op = "archiveAccount"
    /\ resp.code = "NOT_FOUND"

(* ---- C2 ---------------------------------------------------------------- *)

C2_Checks ==
    /\ \A i \in CreateAccountInputs :
          ValidCreateAccount(i) => CreateAccountCheck(NoUser, i) = "UNAUTHORIZED"
    /\ \A i \in CreateCategoryInputs :
          ValidCreateCategory(i) => CreateCategoryCheck(NoUser, i) = "UNAUTHORIZED"
    /\ \A i \in CreateTransactionInputs :
          ValidCreateTransaction(i) => CreateTransactionCheck(NoUser, i) = "UNAUTHORIZED"
    /\ \A i \in ListTransactionsInputs :
          ValidListTransactions(i) => ListTransactionsCheck(NoUser, i) = "UNAUTHORIZED"
    /\ ListAccountsCheck(NoUser) = "UNAUTHORIZED"
    /\ ListCategoriesCheck(NoUser) = "UNAUTHORIZED"
    /\ \A id \in Ids :
          /\ ArchiveAccountCheck(NoUser, id) = "UNAUTHORIZED"
          /\ ArchiveCategoryCheck(NoUser, id) = "UNAUTHORIZED"
          /\ DeleteTransactionCheck(NoUser, id) = "UNAUTHORIZED"
          /\ \A i \in AccountPatches :
                ValidUpdateAccount(i) => UpdateAccountCheck(NoUser, id, i) = "UNAUTHORIZED"
          /\ \A i \in CategoryPatches :
                ValidUpdateCategory(i) => UpdateCategoryCheck(NoUser, id, i) = "UNAUTHORIZED"
          /\ \A i \in TransactionPatches :
                ValidUpdateTransaction(i) =>
                    UpdateTransactionCheck(NoUser, id, i) = "UNAUTHORIZED"

C2_Step ==
    resp'.code = "UNAUTHORIZED" =>
        /\ UNCHANGED <<tables, clock, nextId, pending>>
        /\ resp'.data = NoData

\* C2: fail closed on missing identity.  In every reachable state each of the 12
\* handlers, run on any input its schema accepts with a context that carries no
\* user, ends in UNAUTHORIZED, whatever the tables hold; and a step that ends in
\* UNAUTHORIZED changes no table, suspends no request and returns no data.
C2_FailClosed == []C2_Checks /\ [][C2_Step]_vars

\* rows are stored, and a call ended in UNAUTHORIZED
C2_Witness ==
    /\ Len(accounts) > 0
    /\ Len(transactions) > 0
    /\ resp.code = "UNAUTHORIZED"

(* ---- C3 ---------------------------------------------------------------- *)

\* the write of a successful update whose looked-up row is still the stored row
C3_Uninterleaved(op, table) ==
    /\ resp'.op = op
    /\ resp'.code = "OK"
    /\ Row(table, resp'.req.id) = resp'.req.row

C3_Row(old, new, now) ==
    /\ new # Null
    /\ new.id = old.id
    /\ new.userId = old.userId
    /\ new.createdAt = old.createdAt
    /\ new.updatedAt = now

C3_Account ==
    C3_Uninterleaved("updateAccount", accounts) =>
        LET q == resp'.req
            old == q.row
            new == Row(accounts', q.id)
        IN /\ C3_Row(old, new, clock)
           /\ KeptOrSetReq(q.input.name, old.name, new.name)
           /\ KeptOrSet(q.input.type, old.type, new.type)
           /\ KeptOrSet(q.input.currency, old.currency, new.currency)
           /\ KeptOrSet(q.input.startingBalance, old.startingBalance,
                        new.startingBalance)
           /\ KeptOrSetReq(q.input.isArchived, old.isArchived, new.isArchived)
           /\ SameOrder(accounts, accounts')
           /\ OthersUnchanged(accounts, accounts', q.id)
           /\ UNCHANGED <<categories, transactions>>

C3_Category ==
    C3_Uninterleaved("updateCategory", categories) =>
        LET q == resp'.req
            old == q.row
            new == Row(categories', q.id)
        IN /\ C3_Row(old, new, clock)
           /\ KeptOrSetReq(q.input.name, old.name, new.name)
           /\ KeptOrSet(q.input.type, old.type, new.type)
           /\ KeptOrSet(q.input.icon, old.icon, new.icon)
           /\ KeptOrSet(q.input.parentCategoryId, old.parentCategoryId,
                        new.parentCategoryId)
           /\ KeptOrSet(q.input.sortOrder, old.sortOrder, new.sortOrder)
           /\ KeptOrSetReq(q.input.isArchived, old.isArchived, new.isArchived)
           /\ SameOrder(categories, categories')
           /\ OthersUnchanged(categories, categories', q.id)
           /\ UNCHANGED <<accounts, transactions>>

C3_Transaction ==
    C3_Uninterleaved("updateTransaction", transactions) =>
        LET q == resp'.req
            old == q.row
            new == Row(transactions', q.id)
        IN /\ C3_Row(old, new, clock)
           /\ KeptOrSet(q.input.accountId, old.accountId, new.accountId)
           /\ KeptOrSet(q.input.categoryId, old.categoryId, new.categoryId)
           /\ KeptOrSetReq(q.input.type, old.type, new.type)
           /\ KeptOrSetReq(q.input.amount, old.amount, new.amount)
           /\ KeptOrSet(q.input.currency, old.currency, new.currency)
           /\ KeptOrSetReq(q.input.transactionDate, old.transactionDate,
                           new.transactionDate)
           /\ KeptOrSet(q.input.description, old.description, new.description)
           /\ KeptOrSet(q.input.transferAccountId, old.transferAccountId,
                        new.transferAccountId)
           /\ SameOrder(transactions, transactions')
           /\ OthersUnchanged(transactions, transactions', q.id)
           /\ UNCHANGED <<accounts, categories>>

\* C3: update frame.  The write of a successful updateAccount / updateCategory /
\* updateTransaction that no other write of the row came between leaves the
\* stored row with every supplied field set to the supplied value, updatedAt set
\* to the handler's now, and every field not supplied (and id, userId,
\* createdAt) as before; every other row of the table and both other tables are
\* unchanged.  With no field supplied only updatedAt changes.
C3_UpdateFrame == [][C3_Account /\ C3_Category /\ C3_Transaction]_vars

\* an update that supplied name, type and startingBalance, not currency, has
\* been written over the row it looked up
C3_Witness ==
    /\ resp.op = "updateAccount"
    /\ resp.code = "OK"
    /\ resp.before = resp.req.row
    /\ resp.req.input.type = Some("")
    /\ resp.req.input.currency = Absent
    /\ Row(accounts, resp.req.id).name = "Bank"
    /\ Row(accounts, resp.req.id).type = Some("")
    /\ Row(accounts, resp.req.id).currency = Some("AED")
    /\ Row(accounts, resp.req.id).updatedAt > Row(accounts, resp.req.id).createdAt

(* ---- C4 ---------------------------------------------------------------- *)

C4_StaysArchived(old, new) ==
    \A k \in 1..Len(old) : old[k].isArchived => new[k].isArchived

\* C4 as stated: once a row has isArchived = true, no step of any exposed action
\* brings it back to isArchived = false.
C4_ArchiveIrreversible ==
    [][C4_StaysArchived(accounts, accounts')
       /\ C4_StaysArchived(categories, categories')]_vars

\* the update that un-archives: its input supplies isArchived = false, or supplies
\* none and the row it looked up was not yet archived
C4_Unarchiving(req) ==
    \/ req.input.isArchived = Some(FALSE)
    \/ req.input.isArchived = Absent /\ req.row.isArchived = FALSE

C4_OnlyByUpdate(op, old, new) ==
    \A k \in 1..Len(old) :
        (old[k].isArchived /\ ~new[k].isArchived) =>
            /\ resp'.op = op
            /\ resp'.code = "OK"
            /\ resp'.req.id = old[k].id
            /\ resp'.req.user = old[k].userId
            /\ C4_Unarchiving(resp'.req)

\* C4, amended: a row goes from isArchived = true back to false only in the write
\* of an updateAccount / updateCategory by the row's owner that supplies
\* isArchived = false, or that supplies no isArchived and looked the row up
\* before it was archived; no create, archive, list or delete step, and no step
\* of another caller, does.
C4_UnarchiveOnlyByUpdate ==
    [][C4_OnlyByUpdate("updateAccount", accounts, accounts')
       /\ C4_OnlyByUpdate("updateCategory", categories, categories')]_vars

\* an archived account has been un-archived by an update supplying false
C4_Witness ==
    /\ resp.op = "updateAccount"
    /\ resp.code = "OK"
    /\ resp.req.input.isArchived = Some(FALSE)
    /\ resp.before # Null
    /\ resp.before.isArchived = TRUE
    /\ Row(accounts, resp.req.id).isArchived = FALSE

(* ---- C5 ---------------------------------------------------------------- *)

C5_Exactly(items, table, U, includeArchived) ==
    /\ RowSet(items) =
          {r \in RowSet(table) : r.userId = U /\ (includeArchived \/ ~r.isArchived)}
    /\ Len(items) = Cardinality(RowSet(items))
    /\ \A k \in 1..Len(items) : ~includeArchived => ~items[k].isArchived

C5_Total ==
    resp.op \in {"listAccounts", "listCategories"} /\ resp.code = "OK" =>
        resp.data.total = Len(resp.data.items)

\* C5: archive-aware listing.  In every reachable state listAccounts and
\* listCategories by owner U return, with includeArchived = false, exactly the
\* rows of U that are not archived and, with includeArchived = true, exactly the
\* rows of U, each once; and a returned total is the number of returned items.
C5_ArchiveAwareListing ==
    /\ \A U \in Users, f \in ListFlags :
          /\ C5_Exactly(ListAccountsItems(U, f), accounts, U, f)
          /\ C5_Exactly(ListCategoriesItems(U, f), categories, U, f)
    /\ C5_Total

\* a list without archived rows returned one account of an owner who has an
\* archived one too
C5_Witness ==
    /\ resp.op = "listAccounts"
    /\ resp.code = "OK"
    /\ resp.data.total = 1
    /\ \E k \in 1..Len(accounts) :
          /\ accounts[k].isArchived
          /\ accounts[k].userId = resp.data.items[1].userId
    /\ ~resp.data.items[1].isArchived

(* ---- C6 ---------------------------------------------------------------- *)

C6_Stored == \A k \in 1..Len(transactions) : transactions[k].amount > 0

C6_Rejected ==
    \A c \in Callers :
        /\ \A i \in CreateTransactionInputs :
              i.amount <= 0 => CreateTransactionCheck(c, i) = "BAD_REQUEST"
        /\ \A id \in Ids, i \in TransactionPatches :
              (i.amount # Absent /\ Val(i.amount) <= 0) =>
                  UpdateTransactionCheck(c, id, i) = "BAD_REQUEST"

C6_Step == resp'.code = "BAD_REQUEST" => UNCHANGED <<tables, clock, nextId, pending>>

\* C6: positive amounts.  createTransaction and updateTransaction with a supplied
\* amount <= 0 end in BAD_REQUEST for every caller, a BAD_REQUEST step changes
\* no table, and every stored transaction has amount > 0 in every reachable
\* state, whatever the interleaving.
C6_PositiveAmount == [](C6_Stored /\ C6_Rejected) /\ [][C6_Step]_vars

\* an update of a stored transaction was rejected at validation
C6_Witness ==
    /\ Len(transactions) > 0
    /\ resp.op = "updateTransaction"
    /\ resp.code = "BAD_REQUEST"

(* ---- C7 ---------------------------------------------------------------- *)

\* the rows of U that match every filter the input provides, in storage order
C7_Matching(U, i) ==
    LET Match(r) ==
            /\ r.userId = U
            /\ i.accountId # Absent => r.accountId = i.accountId
            /\ i.categoryId # Absent => r.categoryId = i.categoryId
            /\ i.type # Absent => r.type = Val(i.type)
    IN SelectSeq(transactions, Match)

C7_Page(U, i) ==
    LET rows == C7_Matching(U, i)
        first == (i.page - 1) * i.pageSize + 1
        last == Min(Len(rows), i.page * i.pageSize)
        res == ListTransactionsResult(U, i)
    IN /\ res.items = SubSeq(rows, first, last)
       /\ Len(res.items) <= i.pageSize
       /\ (first > Len(rows) => res.items = <<>>)
       /\ res.total = Len(res.items)
       /\ res.page = i.page
       /\ res.pageSize = i.pageSize

\* C7 as stated: in every reachable state listTransactions by U returns the rows
\* at positions (page-1)*pageSize .. page*pageSize-1 of the rows of U that match
\* every provided filter, at most pageSize of them, none past the end, with page
\* and pageSize echoed and total the number of returned items.
C7_Paging ==
    \A U \in Users, i \in ListTransactionsInputs :
        ValidListTransactions(i) => C7_Page(U, i)

\* C7, amended: the same, for every input whose accountId and categoryId, when
\* provided, are not the empty string (the handler tests a filter for
\* truthiness, so an id given as "" filters nothing).
C7_PagingNonEmptyFilters ==
    \A U \in Users, i \in ListTransactionsInputs :
        (ValidListTransactions(i) /\ i.accountId # Some("") /\ i.categoryId # Some(""))
            => C7_Page(U, i)

\* page 2 of size 1 returned the second of an owner's two transactions
C7_Witness ==
    /\ resp.op = "listTransactions"
    /\ resp.code = "OK"
    /\ resp.data.page = 2
    /\ resp.data.pageSize = 1
    /\ Len(transactions) = 2
    /\ transactions[1].userId = transactions[2].userId
    /\ resp.data.items = <<transactions[2]>>

(* ---- C8 ---------------------------------------------------------------- *)

C8_Step ==
    resp'.op = "deleteTransaction" /\ resp'.code = "OK" =>
        LET q == resp'.req
            Other(r) == r.id # q.id
        IN /\ transactions' = SelectSeq(transactions, Other)
           /\ Len(transactions) - Len(transactions') =
                 (IF Row(transactions, q.id) # Null THEN 1 ELSE 0)
           /\ UNCHANGED <<accounts, categories>>

C8_After ==
    resp.op = "deleteTransaction" /\ resp.code = "OK" =>
        LET q == resp.req
        IN /\ GetTransactionForUser(q.id, q.user) = Null
           /\ DeleteTransactionCheck(q.user, q.id) = "NOT_FOUND"
           /\ \A i \in ListTransactionsInputs :
                 ValidListTransactions(i) =>
                     \A k \in 1..Len(ListTransactionsItems(q.user, i)) :
                         ListTransactionsItems(q.user, i)[k].id # q.id

\* C8: delete frame.  The write of a successful deleteTransaction(id) by U removes
\* the transaction with that id and nothing else: every other transaction and
\* every account and category is unchanged; afterwards the lookup by U finds
\* nothing, no listTransactions by U returns it, and a deleteTransaction(id) by
\* U ends in NOT_FOUND.
C8_DeleteFrame == []C8_After /\ [][C8_Step]_vars

\* a transaction was deleted and another transaction of the same owner remains
C8_Witness ==
    /\ resp.op = "deleteTransaction"
    /\ resp.code = "OK"
    /\ resp.before # Null
    /\ \E k \in 1..Len(transactions) : transactions[k].userId = resp.req.user

(* ---- C9 ---------------------------------------------------------------- *)

C9_Account ==
    resp'.op = "updateAccount" /\ resp'.code = "OK" =>
        LET q == resp'.req
            seen == q.row
            new == Row(accounts', q.id)
        IN /\ new # Null
           /\ KeptOrSetReq(q.input.name, seen.name, new.name)
           /\ KeptOrSet(q.input.type, seen.type, new.type)
           /\ KeptOrSet(q.input.currency, seen.currency, new.currency)
           /\ KeptOrSet(q.input.startingBalance, seen.startingBalance,
                        new.startingBalance)
           /\ KeptOrSetReq(q.input.isArchived, seen.isArchived, new.isArchived)
           /\ new.updatedAt = clock
           /\ resp'.data = new

C9_Category ==
    resp'.op = "updateCategory" /\ resp'.code = "OK" =>
        LET q == resp'.req
            seen == q.row
            new == Row(categories', q.id)
        IN /\ new # Null
           /\ KeptOrSetReq(q.input.name, seen.name, new.name)
           /\ KeptOrSet(q.input.type, seen.type, new.type)
           /\ KeptOrSet(q.input.icon, seen.icon, new.icon)
           /\ KeptOrSet(q.input.parentCategoryId, seen.parentCategoryId,
                        new.parentCategoryId)
           /\ KeptOrSet(q.input.sortOrder, seen.sortOrder, new.sortOrder)
           /\ KeptOrSetReq(q.input.isArchived, seen.isArchived, new.isArchived)
           /\ new.updatedAt = clock
           /\ resp'.data = new

\* C9: lost update.  The write of an updateAccount / updateCategory stores, for
\* every mutable field, the supplied value or else the value of the row as it
\* was looked up, whatever the stored row holds by then, and reports success with
\* that row: a write (an archive, another update) committed since the lookup is
\* overwritten, and the final row is that of the last write.
C9_LastWriteWins == [][C9_Account /\ C9_Category]_vars

\* an updateAccount that supplied no isArchived and looked the row up before an
\* archive has written isArchived = false over the archived row, with success
C9_Witness ==
    /\ resp.op = "updateAccount"
    /\ resp.code = "OK"
    /\ resp.req.input.isArchived = Absent
    /\ resp.req.row.isArchived = FALSE
    /\ resp.before # Null
    /\ resp.before.isArchived = TRUE
    /\ Row(accounts, resp.req.id).isArchived = FALSE

(* ---- C10 --------------------------------------------------------------- *)

\* the identifiers handed out so far
Allocated == {RandomUUID(n) : n \in 1..(nextId - 1)}

\* allocated and in no table: accounts and categories are never removed, so the
\* id of a deleted transaction
C10_Deleted(id) ==
    /\ id \in Allocated
    /\ id \notin RowIds(accounts) \cup RowIds(categories) \cup RowIds(transactions)

\* C10: no resurrection.  Once deleteTransaction has removed a transaction, no
\* step makes a row with its id exist again: a created row takes an id never
\* handed out before, and the write of an updateTransaction that looked the row
\* up before the delete matches no row (and still reports success).
C10_NoResurrection ==
    [][\A id \in Ids : C10_Deleted(id) => id \notin RowIds(transactions')]_vars

\* an updateTransaction reported success after its write matched no row
C10_Witness ==
    /\ resp.op = "updateTransaction"
    /\ resp.code = "OK"
    /\ resp.before = Null
    /\ resp.req.id \notin RowIds(transactions)

====
